---- MODULE Spec2Model ----
(***************************************************************************)
(* Interval abstract domain of crab/ikos: extended bounds (bound<Number>), *)
(* intervals (interval<Number>, Number = z_number) and the non-relational  *)
(* map domain separate_domain<Key, interval>.                              *)
(*                                                                         *)
(* The library is a set of pure functions over values; each is an operator *)
(* below, computed as the C++ computes it.  The specifications draw the    *)
(* operands in Init and apply the operations in their actions.             *)
(***************************************************************************)
EXTENDS Integers, FiniteSets, Sequences, TLC

(* Finite bounds of the generated intervals range over -MaxN .. MaxN. *)
MaxN == 2

(* Finite bounds of the intervals bound in generated maps range over 0 .. MapN. *)
MapN == 1

(* Variables (keys) of the generated maps. *)
Keys == {"x", "y"}

VARIABLES
    args,     \* SpecInterval: the four bounds handed to interval(lb, ub), twice
    a,        \* SpecInterval: left operand  interval(args[1], args[2])
    b,        \* SpecInterval: right operand interval(args[3], args[4])
    op,       \* SpecInterval: the operation applied last ("init": none yet)
    r,        \* SpecInterval: the value it returned
    ma,       \* SpecMap: left operand (a separate_domain)
    mb,       \* SpecMap: right operand
    mop,      \* SpecMap: the operation applied last
    mr,       \* SpecMap: the value it returned
    x,        \* SpecWiden / SpecNarrow: the current element of the chain
    y,        \* SpecNarrow: the argument of the last step
    changes,  \* SpecWiden: number of steps that changed x
    env,      \* SpecDomain: the interval_domain state (its _env)
    call,     \* SpecDomain: the last call, <<name, argument, ...>>
    out,      \* SpecDomain: the interval the last query returned
    csts,     \* SpecDomain: the constraint system the last export returned
    ts,       \* SpecThresholds: the threshold set of the widening
    bres      \* SpecBound: the value a bound operation returned

vars == <<args, a, b, op, r, ma, mb, mop, mr, x, y, changes, env, call, out, csts, ts, bres>>

-----------------------------------------------------------------------------
(* bound<Number>: _is_infinite and _n; an infinite bound carries n = 1 or -1. *)

(* The value standing for "CRAB_ERROR was raised": the operation is fail-stop *)
(* and returns nothing.  Every bound operation propagates it.                 *)
BErr == [inf |-> TRUE, n |-> 0]

(* private constructor bound(bool is_infinite, Number n) *)
Bound(is_infinite, n) ==
    IF is_infinite THEN [inf |-> TRUE, n |-> IF n > 0 THEN 1 ELSE -1]
    ELSE [inf |-> FALSE, n |-> n]

Fin(n) == [inf |-> FALSE, n |-> n]

plus_infinity == Bound(TRUE, 1)

minus_infinity == Bound(TRUE, -1)

is_finite(u) == ~u.inf

BLe(u, v) ==
    IF u.inf # v.inf
    THEN (IF u.inf THEN u.n < 0 ELSE v.n > 0)
    ELSE u.n <= v.n

BGe(u, v) ==
    IF u.inf # v.inf
    THEN (IF u.inf THEN u.n > 0 ELSE v.n < 0)
    ELSE u.n >= v.n

BLt(u, v) == ~BGe(u, v)

BGt(u, v) == ~BLe(u, v)

BMin(u, v) ==
    IF u = BErr \/ v = BErr THEN BErr
    ELSE IF BLe(u, v) THEN u ELSE v

BMax(u, v) ==
    IF u = BErr \/ v = BErr THEN BErr
    ELSE IF BLe(u, v) THEN v ELSE u

BMin4(u, v, w, t) == BMin(u, BMin(v, BMin(w, t)))

BMax4(u, v, w, t) == BMax(u, BMax(v, BMax(w, t)))

BNeg(u) ==
    IF u = BErr THEN BErr ELSE Bound(u.inf, -u.n)

(* Faulty operator+: infinities of opposite sign give the left operand. *)
BAddNoError(u, v) ==
    IF u = BErr \/ v = BErr THEN BErr
    ELSE IF ~u.inf /\ ~v.inf THEN Fin(u.n + v.n)
    ELSE IF ~u.inf /\ v.inf THEN v
    ELSE IF u.inf /\ ~v.inf THEN u
    ELSE u

(* bound::operator+ *)
BAdd(u, v) ==
    IF u = BErr \/ v = BErr THEN BErr
    ELSE IF ~u.inf /\ ~v.inf THEN Fin(u.n + v.n)
    ELSE IF ~u.inf /\ v.inf THEN v
    ELSE IF u.inf /\ ~v.inf THEN u
    ELSE IF u.n = v.n THEN u
    ELSE BErr

BSub(u, v) == BAdd(u, BNeg(v))

BMul(u, v) ==
    IF u = BErr \/ v = BErr THEN BErr
    ELSE IF v.n = 0 THEN v
    ELSE IF u.n = 0 THEN u
    ELSE Bound(u.inf \/ v.inf, u.n * v.n)

(* z_number division: the quotient rounded toward zero *)
Abs(n) == IF n < 0 THEN -n ELSE n

TDiv(m, n) ==
    IF (m < 0) # (n < 0) THEN -(Abs(m) \div Abs(n)) ELSE Abs(m) \div Abs(n)

(* Faulty operator/: an infinite bound keeps its sign under a negative     *)
(* finite divisor.                                                         *)
BDivKeepsSign(u, v) ==
    IF u = BErr \/ v = BErr THEN BErr
    ELSE IF v.n = 0 THEN BErr
    ELSE IF ~u.inf /\ ~v.inf THEN Bound(FALSE, TDiv(u.n, v.n))
    ELSE IF ~u.inf /\ v.inf
         THEN (IF u.n > 0 THEN v ELSE IF u.n = 0 THEN u ELSE BNeg(v))
    ELSE IF u.inf /\ ~v.inf
         THEN u
    ELSE Bound(TRUE, u.n * v.n)

(* bound::operator/ *)
BDiv(u, v) ==
    IF u = BErr \/ v = BErr THEN BErr
    ELSE IF v.n = 0 THEN BErr
    ELSE IF ~u.inf /\ ~v.inf THEN Bound(FALSE, TDiv(u.n, v.n))
    ELSE IF ~u.inf /\ v.inf
         THEN (IF u.n > 0 THEN v ELSE IF u.n = 0 THEN u ELSE BNeg(v))
    ELSE IF u.inf /\ ~v.inf
         THEN (IF v.n > 0 THEN u ELSE BNeg(u))
    ELSE Bound(TRUE, u.n * v.n)

-----------------------------------------------------------------------------
(* interval<Number>: _lb and _ub *)

(* private constructor interval(): the canonical bottom *)
IBottom == [lb |-> Fin(0), ub |-> Fin(-1)]

(* The result of an operation that raised CRAB_ERROR. *)
IErr == [lb |-> BErr, ub |-> BErr]

(* Faulty interval(lb, ub): the inverted pair is kept as it is. *)
IntervalUnnormalized(lb, ub) ==
    IF lb = BErr \/ ub = BErr THEN IErr
    ELSE [lb |-> lb, ub |-> ub]

(* interval(bound_t lb, bound_t ub) *)
Interval(lb, ub) ==
    IF lb = BErr \/ ub = BErr THEN IErr
    ELSE IF BGt(lb, ub) THEN [lb |-> Fin(0), ub |-> Fin(-1)]
    ELSE [lb |-> lb, ub |-> ub]

(* interval(bound_t b): an infinite bound gives bottom *)
IntervalB(bd) ==
    IF bd = BErr THEN IErr
    ELSE IF ~is_finite(bd) THEN IBottom
    ELSE [lb |-> bd, ub |-> bd]

(* interval(Number n) *)
INum(n) == [lb |-> Fin(n), ub |-> Fin(n)]

ITop == Interval(minus_infinity, plus_infinity)

is_bottom(i) == BGt(i.lb, i.ub)

is_top(i) == i.lb.inf /\ i.ub.inf

(* operator== *)
IEq(i, j) ==
    IF is_bottom(i) THEN is_bottom(j)
    ELSE i.lb = j.lb /\ i.ub = j.ub

(* Faulty operator<=: the lower bounds are compared the wrong way round. *)
ILeqLowerReversed(i, j) ==
    IF is_bottom(i) THEN TRUE
    ELSE IF is_bottom(j) THEN FALSE
    ELSE BLe(i.lb, j.lb) /\ BLe(i.ub, j.ub)

(* operator<= *)
ILeq(i, j) ==
    IF is_bottom(i) THEN TRUE
    ELSE IF is_bottom(j) THEN FALSE
    ELSE BLe(j.lb, i.lb) /\ BLe(i.ub, j.ub)

(* Faulty operator|: the lower bound of the left operand is kept. *)
IJoinLeftLower(i, j) ==
    IF is_bottom(i) THEN j
    ELSE IF is_bottom(j) THEN i
    ELSE Interval(i.lb, BMax(i.ub, j.ub))

(* operator| *)
IJoin(i, j) ==
    IF is_bottom(i) THEN j
    ELSE IF is_bottom(j) THEN i
    ELSE Interval(BMin(i.lb, j.lb), BMax(i.ub, j.ub))

(* operator& *)
IMeet(i, j) ==
    IF is_bottom(i) \/ is_bottom(j) THEN IBottom
    ELSE Interval(BMax(i.lb, j.lb), BMin(i.ub, j.ub))

(* Faulty operator||: a growing bound moves to the bound of the argument. *)
IWidenAsJoin(i, j) ==
    IF is_bottom(i) THEN j
    ELSE IF is_bottom(j) THEN i
    ELSE Interval(BMin(i.lb, j.lb), BMax(i.ub, j.ub))

(* Faulty operator||: a growing upper bound is not widened. *)
IWidenLowerOnly(i, j) ==
    IF is_bottom(i) THEN j
    ELSE IF is_bottom(j) THEN i
    ELSE Interval(IF BLt(j.lb, i.lb) THEN minus_infinity ELSE i.lb, i.ub)

(* operator|| *)
IWiden(i, j) ==
    IF is_bottom(i) THEN j
    ELSE IF is_bottom(j) THEN i
    ELSE Interval(IF BLt(j.lb, i.lb) THEN minus_infinity ELSE i.lb,
                  IF BLt(i.ub, j.ub) THEN plus_infinity ELSE i.ub)

(* Faulty operator&&: a finite bound of the argument replaces any bound. *)
INarrowAnyBound(i, j) ==
    IF is_bottom(i) \/ is_bottom(j) THEN IBottom
    ELSE Interval(IF is_finite(j.lb) THEN j.lb ELSE i.lb,
                  IF is_finite(j.ub) THEN j.ub ELSE i.ub)

(* Faulty operator&&: narrowing computed as the meet. *)
INarrowAsMeet(i, j) ==
    IF is_bottom(i) \/ is_bottom(j) THEN IBottom
    ELSE Interval(BMax(i.lb, j.lb), BMin(i.ub, j.ub))

(* operator&& *)
INarrow(i, j) ==
    IF is_bottom(i) \/ is_bottom(j) THEN IBottom
    ELSE Interval(IF i.lb.inf /\ is_finite(j.lb) THEN j.lb ELSE i.lb,
                  IF i.ub.inf /\ is_finite(j.ub) THEN j.ub ELSE i.ub)

(* Faulty operator+: each bound is added to the opposite bound. *)
IAddCrossed(i, j) ==
    IF is_bottom(i) \/ is_bottom(j) THEN IBottom
    ELSE Interval(BAdd(i.lb, j.ub), BAdd(i.ub, j.lb))

(* operator+ *)
IAdd(i, j) ==
    IF is_bottom(i) \/ is_bottom(j) THEN IBottom
    ELSE Interval(BAdd(i.lb, j.lb), BAdd(i.ub, j.ub))

(* unary operator- *)
INeg(i) ==
    IF is_bottom(i) THEN IBottom
    ELSE Interval(BNeg(i.ub), BNeg(i.lb))

(* Faulty binary operator-: the bounds are subtracted pointwise. *)
ISubPointwise(i, j) ==
    IF is_bottom(i) \/ is_bottom(j) THEN IBottom
    ELSE Interval(BSub(i.lb, j.lb), BSub(i.ub, j.ub))

(* binary operator- *)
ISub(i, j) ==
    IF is_bottom(i) \/ is_bottom(j) THEN IBottom
    ELSE Interval(BSub(i.lb, j.ub), BSub(i.ub, j.lb))

(* operator* *)
IMul(i, j) ==
    IF is_bottom(i) \/ is_bottom(j) THEN IBottom
    ELSE LET ll == BMul(i.lb, j.lb)
             lu == BMul(i.lb, j.ub)
             ul == BMul(i.ub, j.lb)
             uu == BMul(i.ub, j.ub)
         IN  Interval(BMin4(ll, lu, ul, uu), BMax4(ll, lu, ul, uu))

(* singleton(): is a number returned *)
is_singleton(i) == ~is_bottom(i) /\ i.lb = i.ub /\ ~i.lb.inf

(* operator[](Number n) *)
Contains(i, n) ==
    IF is_bottom(i) THEN FALSE
    ELSE BLe(i.lb, Fin(n)) /\ BLe(Fin(n), i.ub)

(* The last case of interval<z_number>::operator/: neither operand contains 0 *)
DivNoZero(i, j) ==
    LET d == IF BLt(i.ub, Fin(0))
             THEN IAdd(i, IF BLt(j.ub, Fin(0))
                          THEN IAdd(j, INum(1))
                          ELSE ISub(INum(1), j))
             ELSE i
        ll == BDiv(d.lb, j.lb)
        lu == BDiv(d.lb, j.ub)
        ul == BDiv(d.ub, j.lb)
        uu == BDiv(d.ub, j.ub)
    IN  Interval(BMin4(ll, lu, ul, uu), BMax4(ll, lu, ul, uu))

(* Faulty operator/: a divisor that contains 0 gives top, as for rationals. *)
RECURSIVE IDivTopOnZero(_, _)
IDivTopOnZero(i, j) ==
    IF is_bottom(i) \/ is_bottom(j) THEN IBottom
    ELSE IF is_singleton(j) /\ j.lb.n = 1 THEN i
    ELSE IF is_singleton(j) /\ j.lb.n > 0
         THEN Interval(BDiv(i.lb, j.lb), BDiv(i.ub, j.lb))
    ELSE IF is_singleton(j) /\ j.lb.n < 0
         THEN Interval(BDiv(i.ub, j.lb), BDiv(i.lb, j.lb))
    ELSE IF Contains(j, 0)
         THEN ITop
    ELSE IF Contains(i, 0)
         THEN IJoin(IJoin(IDivTopOnZero(Interval(i.lb, Fin(-1)), j),
                          IDivTopOnZero(Interval(Fin(1), i.ub), j)),
                    INum(0))
    ELSE DivNoZero(i, j)

(* interval<z_number>::operator/ *)
RECURSIVE IDiv(_, _)
IDiv(i, j) ==
    IF is_bottom(i) \/ is_bottom(j) THEN IBottom
    ELSE IF is_singleton(j) /\ j.lb.n = 1 THEN i
    ELSE IF is_singleton(j) /\ j.lb.n > 0
         THEN Interval(BDiv(i.lb, j.lb), BDiv(i.ub, j.lb))
    ELSE IF is_singleton(j) /\ j.lb.n < 0
         THEN Interval(BDiv(i.ub, j.lb), BDiv(i.lb, j.lb))
    ELSE IF Contains(j, 0)
         THEN IJoin(IDiv(i, Interval(j.lb, Fin(-1))),
                    IDiv(i, Interval(Fin(1), j.ub)))
    ELSE IF Contains(i, 0)
         THEN IJoin(IJoin(IDiv(Interval(i.lb, Fin(-1)), j),
                          IDiv(Interval(Fin(1), i.ub), j)),
                    INum(0))
    ELSE DivNoZero(i, j)

-----------------------------------------------------------------------------
(* separate_domain<Key, Value> with Value = interval: _is_bottom and _tree. *)
(* The patricia tree is a function from the bound keys to their values.     *)

EmptyTree == [k \in {} |-> IBottom]

(* separate_domain(): top *)
MTop == [is_bottom |-> FALSE, tree |-> EmptyTree]

(* separate_domain(bool b) with b = false: bottom *)
MBottom == [is_bottom |-> TRUE, tree |-> EmptyTree]

(* separate_domain(patricia_tree_t t) *)
MTree(t) == [is_bottom |-> FALSE, tree |-> t]

(* What binary_op_t::apply gives: no value, a value, or the exception bottom_found *)
None == [tag |-> "none"]

Some(v) == [tag |-> "some", val |-> v]

bottom_found == [tag |-> "bottom_found"]

join_op(v, w) ==
    LET z == IJoin(v, w)
    IN  IF is_top(z) THEN None ELSE Some(z)

(* Faulty widening_op: the values are joined. *)
widening_opJoins(v, w) ==
    LET z == IJoin(v, w)
    IN  IF is_top(z) THEN None ELSE Some(z)

(* widening_op::apply *)
widening_op(v, w) ==
    LET z == IWiden(v, w)
    IN  IF is_top(z) THEN None ELSE Some(z)

(* Faulty meet_op: an empty meet unbinds the key instead of throwing. *)
meet_opDropsBottom(v, w) ==
    LET z == IMeet(v, w)
    IN  IF is_bottom(z) THEN None ELSE Some(z)

(* meet_op::apply *)
meet_op(v, w) ==
    LET z == IMeet(v, w)
    IN  IF is_bottom(z) THEN bottom_found ELSE Some(z)

narrowing_op(v, w) ==
    LET z == INarrow(v, w)
    IN  IF is_bottom(z) THEN bottom_found ELSE Some(z)

(* binary_op_t::apply, dispatched on the operator object *)
binary_op_apply(o, v, w) ==
    CASE o = "join_op"      -> join_op(v, w)
      [] o = "widening_op"  -> widening_op(v, w)
      [] o = "meet_op"      -> meet_op(v, w)
      [] o = "narrowing_op" -> narrowing_op(v, w)

(* binary_op_t::default_is_absorbing, dispatched on the operator object *)
default_is_absorbing(o) == o \in {"join_op", "widening_op"}

(* patricia_tree::merge_with(other, op): a key bound on both sides gets     *)
(* op.apply of the two values (unbound when apply gives no value); a key    *)
(* bound on one side only is dropped when the operator's default is         *)
(* absorbing and keeps its value otherwise; an exception of apply leaves.   *)
merge_with(t1, t2, o) ==
    LET both == DOMAIN t1 \cap DOMAIN t2
        one  == (DOMAIN t1 \cup DOMAIN t2) \ both
        kept == {k \in both : binary_op_apply(o, t1[k], t2[k]).tag = "some"}
                    \cup (IF default_is_absorbing(o) THEN {} ELSE one)
    IN  IF \E k \in both : binary_op_apply(o, t1[k], t2[k]) = bottom_found
        THEN [thrown |-> TRUE, tree |-> EmptyTree]
        ELSE [thrown |-> FALSE,
              tree |-> [k \in kept |->
                          IF k \in both THEN binary_op_apply(o, t1[k], t2[k]).val
                          ELSE IF k \in DOMAIN t1 THEN t1[k] ELSE t2[k]]]

(* domain_po::leq *)
domain_po(v, w) == ILeq(v, w)

(* patricia_tree::leq(other, po) with po.default_is_top(): an unbound key   *)
(* reads as top, on either side.                                            *)
tree_leq(t1, t2) ==
    \A k \in DOMAIN t2 : k \in DOMAIN t1 /\ domain_po(t1[k], t2[k])

(* separate_domain::operator<= *)
MLeq(e1, e2) ==
    IF e1.is_bottom THEN TRUE
    ELSE IF e2.is_bottom THEN FALSE
    ELSE tree_leq(e1.tree, e2.tree)

(* separate_domain::operator== *)
MEq(e1, e2) == MLeq(e1, e2) /\ MLeq(e2, e1)

(* separate_domain::operator| *)
MJoin(e1, e2) ==
    IF e1.is_bottom THEN e2
    ELSE IF e2.is_bottom THEN e1
    ELSE MTree(merge_with(e1.tree, e2.tree, "join_op").tree)

(* separate_domain::operator& *)
MMeet(e1, e2) ==
    IF e1.is_bottom \/ e2.is_bottom THEN MBottom
    ELSE LET m == merge_with(e1.tree, e2.tree, "meet_op")
         IN  IF m.thrown THEN MBottom ELSE MTree(m.tree)

(* separate_domain::operator|| *)
MWiden(e1, e2) ==
    IF e1.is_bottom THEN e2
    ELSE IF e2.is_bottom THEN e1
    ELSE MTree(merge_with(e1.tree, e2.tree, "widening_op").tree)

(* separate_domain::operator&& *)
MNarrow(e1, e2) ==
    IF e1.is_bottom \/ e2.is_bottom THEN MBottom
    ELSE LET m == merge_with(e1.tree, e2.tree, "narrowing_op")
         IN  IF m.thrown THEN MBottom ELSE MTree(m.tree)

(* separate_domain::operator[] *)
Lookup(e, k) ==
    IF e.is_bottom THEN IBottom
    ELSE IF k \in DOMAIN e.tree THEN e.tree[k]
    ELSE ITop

-----------------------------------------------------------------------------
(* Generated operands *)

FiniteBounds == {Fin(n) : n \in -MaxN .. MaxN}

Bounds == FiniteBounds \cup {minus_infinity, plus_infinity}

(* well-formed: bottom, or lb <= ub with lb # +oo and ub # -oo *)
WellFormed(i) ==
    \/ i = IBottom
    \/ /\ BLe(i.lb, i.ub)
       /\ i.lb # plus_infinity
       /\ i.ub # minus_infinity

WFIntervals == {i \in {Interval(l, u) : l \in Bounds, u \in Bounds} : WellFormed(i)}

(* The integers over which gamma(i) is sampled. *)
Numbers == -(MaxN + 2) .. (MaxN + 2)

(* n \in gamma(i), by the mathematical order on the extended integers *)
InGamma(n, i) ==
    /\ i # IErr
    /\ IF i.lb.inf THEN i.lb.n < 0 ELSE i.lb.n <= n
    /\ IF i.ub.inf THEN i.ub.n > 0 ELSE n <= i.ub.n

(* The values a non-bottom map may bind: well-formed, not top, not bottom *)
MapBounds == {Fin(n) : n \in 0 .. MapN} \cup {minus_infinity, plus_infinity}

MapValues ==
    {i \in {Interval(l, u) : l \in MapBounds, u \in MapBounds} :
        WellFormed(i) /\ ~is_bottom(i) /\ ~is_top(i)}

Trees == UNION {[D -> MapValues] : D \in SUBSET Keys}

Maps == {MBottom} \cup {MTree(t) : t \in Trees}

(* The third operands of the associativity checks on maps: bottom, top and  *)
(* every map that binds its keys to the singleton 0 or to [MapN, +oo].      *)
Probes == {INum(0), Interval(Fin(MapN), plus_infinity)}

ThirdMaps ==
    {MBottom} \cup {MTree(t) : t \in UNION {[D -> Probes] : D \in SUBSET Keys}}

-----------------------------------------------------------------------------
(* Spec: either two intervals are built by interval(lb, ub), or two maps    *)
(* are given; then one operation is applied to the pair.                    *)

IntervalVarsIdle ==
    /\ args = <<>> /\ a = IBottom /\ b = IBottom /\ op = "idle" /\ r = IBottom

MapVarsIdle ==
    /\ ma = MTop /\ mb = MTop /\ mop = "idle" /\ mr = MTop

ChainVarsIdle ==
    /\ x = MTop /\ y = MTop /\ changes = 0

DomainVarsIdle ==
    /\ env = MTop /\ call = <<"idle">> /\ out = IBottom /\ csts = {}

ThresholdVarsIdle ==
    /\ ts = {}

BoundVarsIdle ==
    /\ bres = Fin(0)

InitInterval ==
    /\ args \in Bounds \X Bounds \X Bounds \X Bounds
    /\ a = Interval(args[1], args[2])
    /\ b = Interval(args[3], args[4])
    /\ op = "init"
    /\ r = IBottom
    /\ MapVarsIdle
    /\ ChainVarsIdle
    /\ DomainVarsIdle
    /\ ThresholdVarsIdle
    /\ BoundVarsIdle

InitMap ==
    /\ ma \in Maps
    /\ mb \in Maps
    /\ mop = "init"
    /\ mr = MTop
    /\ IntervalVarsIdle
    /\ ChainVarsIdle
    /\ DomainVarsIdle
    /\ ThresholdVarsIdle
    /\ BoundVarsIdle

Init == InitInterval \/ InitMap

(* r = IErr afterwards: the operation raised CRAB_ERROR and returned no value. *)
Returns(name, v) ==
    /\ op = "init"
    /\ op' = name
    /\ r' = v
    /\ UNCHANGED <<args, a, b, ma, mb, mop, mr, x, y, changes,
                 env, call, out, csts, ts, bres>>

DoJoin == Returns("join", IJoin(a, b))

DoMeet == Returns("meet", IMeet(a, b))

DoWiden == Returns("widen", IWiden(a, b))

DoNarrow == Returns("narrow", INarrow(a, b))

DoAdd == Returns("add", IAdd(a, b))

DoSub == Returns("sub", ISub(a, b))

DoNeg == Returns("neg", INeg(a))

DoMul == Returns("mul", IMul(a, b))

DoDiv == Returns("div", IDiv(a, b))

MReturns(name, v) ==
    /\ mop = "init"
    /\ mop' = name
    /\ mr' = v
    /\ UNCHANGED <<args, a, b, op, r, ma, mb, x, y, changes,
                 env, call, out, csts, ts, bres>>

DoMapJoin == MReturns("join", MJoin(ma, mb))

DoMapMeet == MReturns("meet", MMeet(ma, mb))

DoMapWiden == MReturns("widen", MWiden(ma, mb))

DoMapNarrow == MReturns("narrow", MNarrow(ma, mb))

Next ==
    \/ DoJoin
    \/ DoMeet
    \/ DoWiden
    \/ DoNarrow
    \/ DoAdd
    \/ DoSub
    \/ DoNeg
    \/ DoMul
    \/ DoDiv
    \/ DoMapJoin
    \/ DoMapMeet
    \/ DoMapWiden
    \/ DoMapNarrow

Spec == Init /\ [][Next]_vars

-----------------------------------------------------------------------------
(* Claims checked under Spec *)

(* Lattice equality of intervals: mutual <= *)
ISame(i, j) == ILeq(i, j) /\ ILeq(j, i)

Applied(name) == op = name /\ WellFormed(a) /\ WellFormed(b)

(* C2: widening is an upper bound of both arguments, a <= (a || b) and      *)
(* b <= (a || b), for well-formed intervals and for maps.                   *)
C2_WideningUpperBound ==
    /\ Applied("widen") => ILeq(a, r) /\ ILeq(b, r)
    /\ mop = "widen" => MLeq(ma, mr) /\ MLeq(mb, mr)

(* a map widening that moved a bound of x to infinity and kept the key *)
C2_Witness ==
    /\ mop = "widen"
    /\ "x" \in DOMAIN mr.tree
    /\ mr.tree["x"] # ma.tree["x"]
    /\ ~MEq(ma, mb)

(* C3: narrowing lies between meet and its left argument,                   *)
(* (a & b) <= (a && b) and (a && b) <= a, for intervals and for maps.       *)
C3_NarrowingBetween ==
    /\ Applied("narrow") => ILeq(IMeet(a, b), r) /\ ILeq(r, a)
    /\ mop = "narrow" => MLeq(MMeet(ma, mb), mr) /\ MLeq(mr, ma)

(* a map narrowing that refined a, and stays strictly above the meet *)
C3_Witness ==
    /\ mop = "narrow"
    /\ ~mr.is_bottom
    /\ ~MEq(mr, ma)
    /\ ~MEq(mr, MMeet(ma, mb))

(* C5: join and meet are commutative, associative and idempotent, up to the *)
(* lattice equality, on well-formed intervals and on maps.                  *)
C5_JoinMeetLaws ==
    /\ Applied("join") =>
          /\ ISame(r, IJoin(b, a))
          /\ ISame(IJoin(a, a), a)
          /\ \A c \in WFIntervals : ISame(IJoin(r, c), IJoin(a, IJoin(b, c)))
    /\ Applied("meet") =>
          /\ ISame(r, IMeet(b, a))
          /\ ISame(IMeet(a, a), a)
          /\ \A c \in WFIntervals : ISame(IMeet(r, c), IMeet(a, IMeet(b, c)))
    /\ mop = "join" =>
          /\ MEq(mr, MJoin(mb, ma))
          /\ MEq(MJoin(ma, ma), ma)
          /\ \A c \in ThirdMaps : MEq(MJoin(mr, c), MJoin(ma, MJoin(mb, c)))
    /\ mop = "meet" =>
          /\ MEq(mr, MMeet(mb, ma))
          /\ MEq(MMeet(ma, ma), ma)
          /\ \A c \in ThirdMaps : MEq(MMeet(mr, c), MMeet(ma, MMeet(mb, c)))

(* a map meet of two different non-bottom maps that is not bottom and binds *)
(* a key bound in one operand only                                          *)
C5_Witness ==
    /\ mop = "meet"
    /\ ~mr.is_bottom
    /\ ~MEq(ma, mb)
    /\ DOMAIN ma.tree = {"x"}
    /\ DOMAIN mb.tree = {"x", "y"}
    /\ mr.tree["x"] # ma.tree["x"]
    /\ mr.tree["x"] # mb.tree["x"]

(* C6: the order is consistent with join, meet and the extremes; a key      *)
(* that the right-hand map does not bind counts as top.                     *)
C6_OrderConsistent ==
    /\ Applied("join") => ILeq(a, r) /\ ILeq(b, r)
    /\ Applied("meet") => ILeq(r, a) /\ ILeq(r, b)
    /\ Applied("join") \/ Applied("meet") =>
          ILeq(IBottom, a) /\ ILeq(a, ITop)
    /\ mop = "join" => MLeq(ma, mr) /\ MLeq(mb, mr)
    /\ mop = "meet" => MLeq(mr, ma) /\ MLeq(mr, mb)
    /\ mop \in {"join", "meet"} =>
          /\ MLeq(MBottom, ma)
          /\ MLeq(ma, MTop)
          /\ MLeq(ma, mb) <=>
                \/ ma.is_bottom
                \/ /\ ~mb.is_bottom
                   /\ \A k \in Keys : ILeq(Lookup(ma, k), Lookup(mb, k))

(* a map join that dropped a key bound in one operand only: the operand is  *)
(* below the result because the unbound key reads as top                    *)
C6_Witness ==
    /\ mop = "join"
    /\ "y" \in DOMAIN ma.tree
    /\ "y" \notin DOMAIN mb.tree
    /\ ~mb.is_bottom
    /\ "y" \notin DOMAIN mr.tree
    /\ "x" \in DOMAIN mr.tree

(* C7: integer division is sound: the quotient, rounded toward zero, of     *)
(* every a in A by every b # 0 in B lies in A / B.                          *)
C7_DivisionSound ==
    Applied("div") /\ ~is_bottom(a) /\ ~is_bottom(b) =>
        \A m \in Numbers, n \in Numbers \ {0} :
            InGamma(m, a) /\ InGamma(n, b) => InGamma(TDiv(m, n), r)

(* C8: integer division is monotone in each argument (hence in both).       *)
C8_DivisionMonotone ==
    Applied("div") =>
        /\ \A c \in WFIntervals : ILeq(a, c) => ILeq(r, IDiv(c, b))
        /\ \A c \in WFIntervals : ILeq(b, c) => ILeq(r, IDiv(a, c))

(* C9: addition, subtraction and multiplication are sound, and each gives   *)
(* bottom when an operand is bottom.                                        *)
C9_ArithmeticSound ==
    /\ Applied("add") =>
          /\ \A m \in Numbers, n \in Numbers :
                InGamma(m, a) /\ InGamma(n, b) => InGamma(m + n, r)
          /\ is_bottom(a) \/ is_bottom(b) => is_bottom(r)
    /\ Applied("sub") =>
          /\ \A m \in Numbers, n \in Numbers :
                InGamma(m, a) /\ InGamma(n, b) => InGamma(m - n, r)
          /\ is_bottom(a) \/ is_bottom(b) => is_bottom(r)
    /\ Applied("mul") =>
          /\ \A m \in Numbers, n \in Numbers :
                InGamma(m, a) /\ InGamma(n, b) => InGamma(m * n, r)
          /\ is_bottom(a) \/ is_bottom(b) => is_bottom(r)

(* a product of two intervals with an infinite bound and both signs *)
C9_Witness ==
    /\ Applied("mul")
    /\ a.lb = minus_infinity
    /\ is_finite(a.ub) /\ a.ub.n > 0
    /\ is_finite(b.lb) /\ b.lb.n < 0
    /\ is_finite(b.ub) /\ b.ub.n > 0
    /\ is_top(r)

(* C10: interval(lb, ub) with lb > ub is the canonical bottom (0, -1),      *)
(* equal to bottom() and is_bottom(); the value every operation returns is  *)
(* this canonical bottom or has lb <= ub.                                   *)
C10_Normalization ==
    op # "idle" =>
        /\ BGt(args[1], args[2]) => a = IBottom /\ IEq(a, IBottom) /\ is_bottom(a)
        /\ BGt(args[3], args[4]) => b = IBottom /\ IEq(b, IBottom) /\ is_bottom(b)
        /\ op # "init" /\ r # IErr => r = IBottom \/ BLe(r.lb, r.ub)

(* the second operand was built from an inverted pair (+oo, ub) and became  *)
(* the canonical bottom, and the subtraction returned the canonical bottom  *)
C10_Witness ==
    /\ op = "sub"
    /\ args[3] = plus_infinity
    /\ b = IBottom
    /\ r = IBottom

-----------------------------------------------------------------------------
(* SpecWiden: the chain x0 = bottom, x(i+1) = x(i) || y(i), y(i) arbitrary. *)
(* SpecNarrow: the chain x(i+1) = x(i) && y(i) from an arbitrary x0.        *)

(* No run is followed beyond this many changes of x. *)
MaxChanges == 8

InitWiden ==
    /\ x = MBottom
    /\ y = MTop
    /\ changes = 0
    /\ IntervalVarsIdle
    /\ MapVarsIdle
    /\ DomainVarsIdle
    /\ ThresholdVarsIdle
    /\ BoundVarsIdle

InitNarrow ==
    /\ x \in Maps
    /\ y = MTop
    /\ changes = 0
    /\ IntervalVarsIdle
    /\ MapVarsIdle
    /\ DomainVarsIdle
    /\ ThresholdVarsIdle
    /\ BoundVarsIdle

WidenStep ==
    \E e \in Maps :
        /\ changes < MaxChanges
        /\ x' = MWiden(x, e)
        /\ changes' = IF x' # x THEN changes + 1 ELSE changes
        /\ UNCHANGED <<args, a, b, op, r, ma, mb, mop, mr, y,
                 env, call, out, csts, ts, bres>>

NarrowStep ==
    \E e \in Maps :
        /\ x' = MNarrow(x, e)
        /\ y' = e
        /\ UNCHANGED <<args, a, b, op, r, ma, mb, mop, mr, changes,
                 env, call, out, csts, ts, bres>>

SpecWiden == InitWiden /\ [][WidenStep]_vars

WidenStepOk ==
    ~x.is_bottom =>
        /\ ~x'.is_bottom
        /\ DOMAIN x'.tree \subseteq DOMAIN x.tree
        /\ \A k \in DOMAIN x'.tree :
              /\ x'.tree[k].lb # x.tree[k].lb => x'.tree[k].lb = minus_infinity
              /\ x'.tree[k].ub # x.tree[k].ub => x'.tree[k].ub = plus_infinity

(* C1: widening terminates: once x is not bottom no variable is added to   *)
(* it, a lower bound changes only to -oo and an upper bound only to +oo    *)
(* (each at most once), and x changes at most 1 + 2 * |Keys| times.        *)
C1_WideningTerminates ==
    /\ [](changes <= 1 + 2 * Cardinality(Keys))
    /\ [][WidenStepOk]_vars

(* the chain changed as often as it can, ending at top *)
C1_Witness == changes = 1 + 2 * Cardinality(Keys) /\ x = MTop

NarrowStepOk ==
    /\ x.is_bottom => x'.is_bottom
    /\ ~x'.is_bottom =>
          \A k \in Keys :
              /\ Lookup(x', k).lb # Lookup(x, k).lb =>
                    /\ Lookup(x, k).lb.inf
                    /\ is_finite(Lookup(x', k).lb)
                    /\ Lookup(x', k).lb = Lookup(y', k).lb
              /\ Lookup(x', k).ub # Lookup(x, k).ub =>
                    /\ Lookup(x, k).ub.inf
                    /\ is_finite(Lookup(x', k).ub)
                    /\ Lookup(x', k).ub = Lookup(y', k).ub

(* C4: narrowing terminates: a bound changes only from infinite to a finite *)
(* bound of the argument (hence at most once), a finite bound never        *)
(* changes, and once x is bottom it stays bottom.                          *)
C4_NarrowingTerminates == [][NarrowStepOk]_vars

(* the argument gave x its finite lower bound; the upper bound of x was    *)
(* finite and is not the argument's                                        *)
C4_Witness ==
    /\ ~x.is_bottom
    /\ ~y.is_bottom
    /\ DOMAIN y.tree = {"x"}
    /\ DOMAIN x.tree = {"x", "y"}
    /\ x.tree["x"] = Interval(Fin(MapN), Fin(MapN))
    /\ y.tree["x"] = Interval(Fin(MapN), plus_infinity)

SpecNarrow == InitNarrow /\ [][NarrowStep]_vars

-----------------------------------------------------------------------------
(* Claims about the interval constructors, checked under Spec *)

(* gamma(i) holds no number *)
EmptyGamma(i) == \A n \in Numbers : ~InGamma(n, i)

(* C11: bottom is the only representation of the empty set: every value    *)
(* built by interval(lb, ub) or interval(bound) that contains no number    *)
(* satisfies is_bottom() and does not satisfy is_top().                    *)
C11_BottomUnique ==
    op # "idle" =>
        \A i \in {a, b, IntervalB(args[1])} :
            EmptyGamma(i) => is_bottom(i) /\ ~is_top(i)

-----------------------------------------------------------------------------
(* separate_domain: mutation; interval_domain: assignment and arithmetic    *)

(* patricia_tree::insert(k, v): binds or overwrites k *)
tree_insert(t, k, v) == [j \in DOMAIN t \cup {k} |-> IF j = k THEN v ELSE t[j]]

(* patricia_tree::remove(k): unbinds k if it is bound *)
tree_remove(t, k) == [j \in DOMAIN t \ {k} |-> t[j]]

(* Faulty set(k, v): a bottom map is changed like any other. *)
MSetOnBottom(e, k, v) ==
    IF is_bottom(v) THEN [is_bottom |-> TRUE, tree |-> EmptyTree]
    ELSE IF is_top(v) THEN [is_bottom |-> FALSE, tree |-> tree_remove(e.tree, k)]
    ELSE [is_bottom |-> FALSE, tree |-> tree_insert(e.tree, k, v)]

(* Faulty set(k, v): a top value is bound instead of removing the key. *)
MSetBindsTop(e, k, v) ==
    IF e.is_bottom THEN e
    ELSE IF is_bottom(v) THEN [is_bottom |-> TRUE, tree |-> EmptyTree]
    ELSE [e EXCEPT !.tree = tree_insert(e.tree, k, v)]

(* separate_domain::set(k, v) *)
MSet(e, k, v) ==
    IF e.is_bottom THEN e
    ELSE IF is_bottom(v) THEN [is_bottom |-> TRUE, tree |-> EmptyTree]
    ELSE IF is_top(v) THEN [e EXCEPT !.tree = tree_remove(e.tree, k)]
    ELSE [e EXCEPT !.tree = tree_insert(e.tree, k, v)]

(* separate_domain::set_to_bottom *)
set_to_bottom(e) == [is_bottom |-> TRUE, tree |-> EmptyTree]

(* Faulty forget: every binding is removed. *)
MForgetAll(e, k) ==
    IF e.is_bottom THEN e
    ELSE [e EXCEPT !.tree = EmptyTree]

(* separate_domain::operator-=(k) *)
MForget(e, k) ==
    IF e.is_bottom THEN e
    ELSE [e EXCEPT !.tree = tree_remove(e.tree, k)]

(* linear_expression_t: a constant and one non-zero coefficient for each    *)
(* of its variables.                                                        *)
linear_expression(c, terms) == [constant |-> c, terms |-> terms]

(* linear_expression_t::get_variable: the variable v when the expression    *)
(* is exactly 1 * v                                                         *)
get_variable(e) ==
    IF /\ e.constant = 0
       /\ \E v \in DOMAIN e.terms : DOMAIN e.terms = {v} /\ e.terms[v] = 1
    THEN Some(CHOOSE v \in DOMAIN e.terms : TRUE)
    ELSE None

(* the loop over the (coefficient, variable) pairs of an expression:        *)
(* acc += c * _env[v] for each pair left in todo                             *)
RECURSIVE eval_terms(_, _, _, _)
eval_terms(e, terms, todo, acc) ==
    IF todo = {} THEN acc
    ELSE LET v == CHOOSE w \in todo : TRUE
         IN  eval_terms(e, terms, todo \ {v},
                        IAdd(acc, IMul(INum(terms[v]), Lookup(e, v))))

(* interval_domain::operator[](linear_expression_t) *)
Eval(e, expr) == eval_terms(e, expr.terms, DOMAIN expr.terms, INum(expr.constant))

(* Faulty assign: the constant term of the expression is left out. *)
assignWithoutConstant(e, xv, expr) ==
    LET v == get_variable(expr)
    IN  IF v.tag = "some"
        THEN MSet(e, xv, Lookup(e, v.val))
        ELSE MSet(e, xv, eval_terms(e, expr.terms, DOMAIN expr.terms, INum(0)))

(* interval_domain::assign(x, e) *)
assign(e, xv, expr) ==
    LET v == get_variable(expr)
    IN  IF v.tag = "some"
        THEN MSet(e, xv, Lookup(e, v.val))
        ELSE MSet(e, xv, eval_terms(e, expr.terms, DOMAIN expr.terms,
                                    INum(expr.constant)))

(* the switch of interval_domain::apply(operation_t, ...): it has no      *)
(* default, so with any other operator xi keeps its initial value bottom   *)
arith(o, yi, zi) ==
    CASE o = "OP_ADDITION"       -> IAdd(yi, zi)
      [] o = "OP_SUBTRACTION"    -> ISub(yi, zi)
      [] o = "OP_MULTIPLICATION" -> IMul(yi, zi)
      [] o = "OP_DIVISION"       -> IDiv(yi, zi)
      [] OTHER                   -> IBottom

(* the last statement of every apply, this->_env.set(x, xi): it is not    *)
(* reached when computing xi raised CRAB_ERROR                             *)
set_result(e, xv, xi) == IF xi = IErr THEN e ELSE MSet(e, xv, xi)

(* what a call leaves in out: IErr when it raised CRAB_ERROR *)
Raised(xi) == IF xi = IErr THEN IErr ELSE IBottom

(* interval_domain::apply(operation_t op, x, y, z) *)
apply(e, o, xv, yv, zv) ==
    set_result(e, xv, arith(o, Lookup(e, yv), Lookup(e, zv)))

(* interval_domain::apply(operation_t op, x, y, Number k) *)
apply_k(e, o, xv, yv, k) ==
    set_result(e, xv, arith(o, Lookup(e, yv), INum(k)))


-----------------------------------------------------------------------------
(* interval_domain: constraints in and out *)

(* linear_constraint_t of the forms v >= n and v <= n, with its is_unsigned *)
(* flag; both forms are inequalities.                                       *)
linear_constraint(v, rel, n, unsigned) ==
    [v |-> v, rel |-> rel, n |-> n, unsigned |-> unsigned]

(* linear_constraint_t::get_false *)
get_false == [v |-> "", rel |-> "false", n |-> 0, unsigned |-> FALSE]

is_inequality(c) == c.rel \in {">=", "<="}

(* what a call leaves in place of a constraint system when iterating a      *)
(* bottom separate_domain threw                                             *)
IterationError == {[v |-> "", rel |-> "error", n |-> 0, unsigned |-> FALSE]}

(* separate_domain::begin / end: an error on bottom, else the bindings *)
begin(e) == [thrown |-> e.is_bottom, tree |-> e.tree]

(* Faulty to_linear_constraint_system: bottom is not tested before the    *)
(* bindings are iterated.                                                  *)
to_linear_constraint_system_unguarded(e) ==
    LET it == begin(e)
    IN  IF it.thrown THEN IterationError
        ELSE UNION {
              (IF is_finite(it.tree[v].lb)
               THEN {linear_constraint(v, ">=", it.tree[v].lb.n, FALSE)}
               ELSE {})
              \cup
              (IF is_finite(it.tree[v].ub)
               THEN {linear_constraint(v, "<=", it.tree[v].ub.n, FALSE)}
               ELSE {}) : v \in DOMAIN it.tree}

(* interval_domain::to_linear_constraint_system *)
to_linear_constraint_system(e) ==
    IF e.is_bottom THEN {get_false}
    ELSE LET it == begin(e)
         IN  IF it.thrown THEN IterationError
             ELSE UNION {
                   (IF is_finite(it.tree[v].lb)
                    THEN {linear_constraint(v, ">=", it.tree[v].lb.n, FALSE)}
                    ELSE {})
                   \cup
                   (IF is_finite(it.tree[v].ub)
                    THEN {linear_constraint(v, "<=", it.tree[v].ub.n, FALSE)}
                    ELSE {}) : v \in DOMAIN it.tree}

(* linear_interval_solver::run on constraints that bound one variable: each *)
(* constraint is met with the variable's interval, false gives bottom.      *)
RECURSIVE solver_run(_, _)
solver_run(cs, e) ==
    IF cs = {} THEN e
    ELSE LET c == CHOOSE d \in cs : TRUE
             half == IF c.rel = ">=" THEN Interval(Fin(c.n), plus_infinity)
                     ELSE Interval(minus_infinity, Fin(c.n))
         IN  IF c.rel = "false" THEN set_to_bottom(e)
             ELSE solver_run(cs \ {c}, MSet(e, c.v, IMeet(Lookup(e, c.v), half)))

(* Faulty add: every inequality is skipped, signed or not. *)
add_skipping_inequalities(e, cs) ==
    IF ~e.is_bottom
    THEN LET signed_csts == {c \in cs : ~is_inequality(c)}
         IN  solver_run(signed_csts, e)
    ELSE e

(* interval_domain::add / operator+=(linear_constraint_system_t) *)
add(e, cs) ==
    IF ~e.is_bottom
    THEN LET signed_csts == {c \in cs : ~(is_inequality(c) /\ c.unsigned)}
         IN  solver_run(signed_csts, e)
    ELSE e


-----------------------------------------------------------------------------
(* interval<z_number>: remainder, bitwise and shift operations *)

(* z_number::operator%: the remainder of the division rounded toward zero *)
TRem(m, n) == m - n * TDiv(m, n)

(* z_number::operator&, |, ^ on integers of unbounded width (two's         *)
(* complement): bit by bit, from the lowest                                *)
RECURSIVE BitAnd(_, _)
BitAnd(m, n) ==
    IF m = 0 \/ n = 0 THEN 0
    ELSE IF m = -1 THEN n
    ELSE IF n = -1 THEN m
    ELSE 2 * BitAnd(m \div 2, n \div 2) + (m % 2) * (n % 2)

RECURSIVE BitOr(_, _)
BitOr(m, n) ==
    IF m = 0 THEN n
    ELSE IF n = 0 THEN m
    ELSE IF m = -1 \/ n = -1 THEN -1
    ELSE 2 * BitOr(m \div 2, n \div 2) + (IF m % 2 = 1 \/ n % 2 = 1 THEN 1 ELSE 0)

RECURSIVE BitXor(_, _)
BitXor(m, n) ==
    IF m = 0 THEN n
    ELSE IF n = 0 THEN m
    ELSE IF m = -1 THEN -n - 1
    ELSE IF n = -1 THEN -m - 1
    ELSE 2 * BitXor(m \div 2, n \div 2) + (IF m % 2 # n % 2 THEN 1 ELSE 0)

(* z_number::fill_ones: the smallest 2^k - 1 that is >= n *)
RECURSIVE fill_ones_from(_, _)
fill_ones_from(n, p) == IF p - 1 >= n THEN p - 1 ELSE fill_ones_from(n, 2 * p)

fill_ones(n) == fill_ones_from(n, 1)

(* the loop "factor = 1; for (i = 0; k > i; i++) factor *= 2" *)
RECURSIVE factor(_)
factor(k) == IF k > 0 THEN 2 * factor(k - 1) ELSE 1

(* interval::UDiv (not specialised for z_number) *)
UDiv(i, j) == IF is_bottom(i) \/ is_bottom(j) THEN IBottom ELSE ITop

(* Faulty SRem: a dividend with a negative lower bound is taken to have no *)
(* positive value.                                                         *)
SRemNegativeOnly(i, j) ==
    IF is_bottom(i) \/ is_bottom(j) THEN IBottom
    ELSE IF is_singleton(i) /\ is_singleton(j)
         THEN (IF j.lb.n = 0 THEN IBottom ELSE INum(TRem(i.lb.n, j.lb.n)))
    ELSE IF is_finite(j.ub) /\ is_finite(j.lb)
         THEN LET max_divisor == IF Abs(j.lb.n) <= Abs(j.ub.n)
                                 THEN Abs(j.ub.n) ELSE Abs(j.lb.n)
              IN  IF max_divisor = 0 THEN IBottom
                  ELSE IF BLt(i.lb, Fin(0))
                       THEN Interval(Fin(-(max_divisor - 1)), Fin(0))
                  ELSE Interval(Fin(0), Fin(max_divisor - 1))
    ELSE ITop

(* interval<z_number>::SRem *)
SRem(i, j) ==
    IF is_bottom(i) \/ is_bottom(j) THEN IBottom
    ELSE IF is_singleton(i) /\ is_singleton(j)
         THEN (IF j.lb.n = 0 THEN IBottom ELSE INum(TRem(i.lb.n, j.lb.n)))
    ELSE IF is_finite(j.ub) /\ is_finite(j.lb)
         THEN LET max_divisor == IF Abs(j.lb.n) <= Abs(j.ub.n)
                                 THEN Abs(j.ub.n) ELSE Abs(j.lb.n)
              IN  IF max_divisor = 0 THEN IBottom
                  ELSE IF BLt(i.lb, Fin(0))
                       THEN (IF BGt(i.ub, Fin(0))
                             THEN Interval(Fin(-(max_divisor - 1)), Fin(max_divisor - 1))
                             ELSE Interval(Fin(-(max_divisor - 1)), Fin(0)))
                  ELSE Interval(Fin(0), Fin(max_divisor - 1))
    ELSE ITop

(* interval<z_number>::URem *)
URem(i, j) ==
    IF is_bottom(i) \/ is_bottom(j) THEN IBottom
    ELSE IF is_singleton(i) /\ is_singleton(j)
         THEN (IF j.lb.n < 0 THEN ITop
               ELSE IF j.lb.n = 0 THEN IBottom
               ELSE IF i.lb.n < 0 THEN Interval(Fin(0), Fin(j.lb.n - 1))
               ELSE INum(TRem(i.lb.n, j.lb.n)))
    ELSE IF is_finite(j.ub) /\ is_finite(j.lb)
         THEN (IF BLt(j.lb, Fin(0)) \/ BLt(j.ub, Fin(0)) THEN ITop
               ELSE IF j.ub.n = 0 THEN IBottom
               ELSE Interval(Fin(0), Fin(j.ub.n - 1)))
    ELSE ITop


(* interval<z_number>::And *)
And(i, j) ==
    IF is_bottom(i) \/ is_bottom(j) THEN IBottom
    ELSE IF is_singleton(i) /\ is_singleton(j) THEN INum(BitAnd(i.lb.n, j.lb.n))
    ELSE IF BGe(i.lb, Fin(0)) /\ BGe(j.lb, Fin(0))
         THEN Interval(Fin(0), BMin(i.ub, j.ub))
    ELSE ITop

(* Faulty Or: the larger upper bound is taken without filling its ones. *)
OrMax(i, j) ==
    IF is_bottom(i) \/ is_bottom(j) THEN IBottom
    ELSE IF is_singleton(i) /\ is_singleton(j) THEN INum(BitOr(i.lb.n, j.lb.n))
    ELSE IF BGe(i.lb, Fin(0)) /\ BGe(j.lb, Fin(0))
         THEN (IF is_finite(i.ub) /\ is_finite(j.ub)
               THEN LET m == IF i.ub.n > j.ub.n THEN i.ub.n ELSE j.ub.n
                    IN  Interval(Fin(0), Fin(m))
               ELSE Interval(Fin(0), plus_infinity))
    ELSE ITop

(* interval<z_number>::Or *)
Or(i, j) ==
    IF is_bottom(i) \/ is_bottom(j) THEN IBottom
    ELSE IF is_singleton(i) /\ is_singleton(j) THEN INum(BitOr(i.lb.n, j.lb.n))
    ELSE IF BGe(i.lb, Fin(0)) /\ BGe(j.lb, Fin(0))
         THEN (IF is_finite(i.ub) /\ is_finite(j.ub)
               THEN LET m == IF i.ub.n > j.ub.n THEN i.ub.n ELSE j.ub.n
                    IN  Interval(Fin(0), Fin(fill_ones(m)))
               ELSE Interval(Fin(0), plus_infinity))
    ELSE ITop

(* interval<z_number>::Xor *)
Xor(i, j) ==
    IF is_bottom(i) \/ is_bottom(j) THEN IBottom
    ELSE IF is_singleton(i) /\ is_singleton(j) THEN INum(BitXor(i.lb.n, j.lb.n))
    ELSE Or(i, j)

(* the largest shift for which the factor loop is run *)
MaxShift == 128

(* Faulty Shl: a negative shift is not tested, the loop then runs no time. *)
ShlUnchecked(i, j) ==
    IF is_bottom(i) \/ is_bottom(j) THEN IBottom
    ELSE IF is_singleton(j) /\ j.lb.n <= MaxShift THEN IMul(i, INum(factor(j.lb.n)))
    ELSE ITop

(* interval<z_number>::Shl *)
Shl(i, j) ==
    IF is_bottom(i) \/ is_bottom(j) THEN IBottom
    ELSE IF is_singleton(j) /\ j.lb.n < 0 THEN ITop
    ELSE IF is_singleton(j) /\ j.lb.n <= MaxShift THEN IMul(i, INum(factor(j.lb.n)))
    ELSE ITop

(* interval<z_number>::AShr *)
AShr(i, j) ==
    IF is_bottom(i) \/ is_bottom(j) THEN IBottom
    ELSE IF is_singleton(j) /\ j.lb.n < 0 THEN ITop
    ELSE IF is_singleton(j) /\ j.lb.n <= MaxShift THEN IDiv(i, INum(factor(j.lb.n)))
    ELSE ITop

(* interval<z_number>::LShr; lb >> k is the quotient by 2^k rounded down *)
LShr(i, j) ==
    IF is_bottom(i) \/ is_bottom(j) THEN IBottom
    ELSE IF is_singleton(j) /\ j.lb.n < 0 THEN ITop
    ELSE IF /\ is_singleton(j) /\ j.lb.n <= MaxShift
            /\ BGe(i.lb, Fin(0)) /\ is_finite(i.ub)
         THEN Interval(Fin(i.lb.n \div factor(j.lb.n)), Fin(i.ub.n \div factor(j.lb.n)))
    ELSE ITop

(* the switch of interval_domain::apply(bitwise_operation_t, ...); its    *)
(* default raises CRAB_ERROR                                               *)
bitwise(o, yi, zi) ==
    CASE o = "OP_AND"  -> And(yi, zi)
      [] o = "OP_OR"   -> Or(yi, zi)
      [] o = "OP_XOR"  -> Xor(yi, zi)
      [] o = "OP_SHL"  -> Shl(yi, zi)
      [] o = "OP_LSHR" -> LShr(yi, zi)
      [] o = "OP_ASHR" -> AShr(yi, zi)
      [] OTHER         -> IErr

(* the switch of interval_domain::apply(div_operation_t, ...); its        *)
(* default raises CRAB_ERROR                                               *)
division(o, yi, zi) ==
    CASE o = "OP_SDIV" -> IDiv(yi, zi)
      [] o = "OP_UDIV" -> UDiv(yi, zi)
      [] o = "OP_SREM" -> SRem(yi, zi)
      [] o = "OP_UREM" -> URem(yi, zi)
      [] OTHER         -> IErr

(* interval_domain::apply(bitwise_operation_t op, x, y, z) *)
apply_bitwise(e, o, xv, yv, zv) ==
    set_result(e, xv, bitwise(o, Lookup(e, yv), Lookup(e, zv)))

(* interval_domain::apply(bitwise_operation_t op, x, y, Number k) *)
apply_bitwise_k(e, o, xv, yv, k) ==
    set_result(e, xv, bitwise(o, Lookup(e, yv), INum(k)))

(* interval_domain::apply(div_operation_t op, x, y, z) *)
apply_div(e, o, xv, yv, zv) ==
    set_result(e, xv, division(o, Lookup(e, yv), Lookup(e, zv)))

(* interval_domain::apply(div_operation_t op, x, y, Number k) *)
apply_div_k(e, o, xv, yv, k) ==
    set_result(e, xv, division(o, Lookup(e, yv), INum(k)))

(* interval_domain::apply(int_conv_operation_t, dst, src): assign(dst, src) *)
apply_int_conv(e, dst, src) ==
    assign(e, dst, linear_expression(0, [v \in {src} |-> 1]))


-----------------------------------------------------------------------------
(* SpecDomain: a sequence of calls on an interval_domain that starts as     *)
(* top() or bottom(); call holds the name of the last call.                 *)
(* SpecCall: one call on an interval_domain in any value; call holds the    *)
(* name and the arguments of the call.                                      *)

(* The intervals handed to set: the values a map may bind, top, bottom, and *)
(* the two values interval(+oo, +oo) and interval(-oo, -oo).                *)
SetValues ==
    MapValues \cup {ITop, IBottom, Interval(plus_infinity, plus_infinity),
                    Interval(minus_infinity, minus_infinity)}

Coefficients == {-1, 1}

ConstantTerms == 0 .. MapN

(* the Number arguments of apply *)
Ks == -1 .. MapN

Exprs ==
    {linear_expression(c, t) :
        c \in ConstantTerms, t \in UNION {[D -> Coefficients] : D \in SUBSET Keys}}

ArithOps == {"OP_ADDITION", "OP_SUBTRACTION", "OP_MULTIPLICATION", "OP_DIVISION"}

BitwiseOps == {"OP_AND", "OP_OR", "OP_XOR", "OP_SHL", "OP_LSHR", "OP_ASHR"}

DivOps == {"OP_SDIV", "OP_UDIV", "OP_SREM", "OP_UREM"}

(* an operator value that is none of the enumerators *)
InvalidOps == {"OP_OUTSIDE"}

BoundConstraints ==
    {linear_constraint(v, rel, n, u) :
        v \in Keys, rel \in {">=", "<="}, n \in ConstantTerms, u \in BOOLEAN}

(* the constraint systems handed to +=: empty, false, one bound, or a lower *)
(* and an upper bound                                                       *)
ConstraintSystems ==
    {{}, {get_false}} \cup {{c} : c \in BoundConstraints}
      \cup {{c, d} : c \in {p \in BoundConstraints : p.rel = ">=" /\ ~p.unsigned},
                     d \in {p \in BoundConstraints : p.rel = "<=" /\ ~p.unsigned}}

(* The finite bounds of the bindings stay in 0 .. MapN. *)
InRange(e) ==
    \A k \in DOMAIN e.tree :
        /\ is_finite(e.tree[k].lb) => e.tree[k].lb.n \in 0 .. MapN
        /\ is_finite(e.tree[k].ub) => e.tree[k].ub.n \in 0 .. MapN

InitDomain ==
    /\ \/ env = MTop /\ call = <<"top">>
       \/ env = MBottom /\ call = <<"bottom">>
    /\ out = IBottom
    /\ csts = {}
    /\ IntervalVarsIdle
    /\ MapVarsIdle
    /\ ChainVarsIdle
    /\ ThresholdVarsIdle
    /\ BoundVarsIdle

InitCall ==
    /\ env \in Maps
    /\ call = <<"init">>
    /\ out = IBottom
    /\ csts = {}
    /\ IntervalVarsIdle
    /\ MapVarsIdle
    /\ ChainVarsIdle
    /\ ThresholdVarsIdle
    /\ BoundVarsIdle

(* A call c that leaves the state e2, the interval o2 and the system cs2.   *)
(* once: the call is the only one (SpecCall), else one more of a sequence,  *)
(* which is followed while the finite bounds stay in range.                 *)
(* A call that raised CRAB_ERROR (out = IErr) is the last one.              *)
Call(once, c, e2, o2, cs2) ==
    /\ IF once THEN call = <<"init">> ELSE call \notin {<<"init">>, <<"idle">>}
    /\ out # IErr
    /\ once \/ InRange(e2)
    /\ env' = e2
    /\ out' = o2
    /\ csts' = cs2
    /\ call' = IF once THEN c ELSE <<c[1]>>
    /\ UNCHANGED <<args, a, b, op, r, ma, mb, mop, mr, x, y, changes, ts, bres>>

(* A call that changes the state and returns nothing *)
Mutates(once, c, e2) == Call(once, c, e2, IBottom, {})


DomSet(once) ==
    \E k \in Keys, v \in SetValues :
        Mutates(once, <<"set", k, v>>, MSet(env, k, v))

DomForget(once) ==
    \E k \in Keys : Mutates(once, <<"forget", k>>, MForget(env, k))

DomJoin(once) ==
    \E e \in ThirdMaps : Mutates(once, <<"join", e>>, MJoin(env, e))

DomMeet(once) ==
    \E e \in ThirdMaps : Mutates(once, <<"meet", e>>, MMeet(env, e))

DomWiden(once) ==
    \E e \in ThirdMaps : Mutates(once, <<"widen", e>>, MWiden(env, e))

DomNarrow(once) ==
    \E e \in ThirdMaps : Mutates(once, <<"narrow", e>>, MNarrow(env, e))

DomAssign(once) ==
    \E xv \in Keys, expr \in Exprs :
        Mutates(once, <<"assign", xv, expr>>, assign(env, xv, expr))

DomApply(once) ==
    \E o \in ArithOps \cup InvalidOps, xv \in Keys, yv \in Keys, zv \in Keys :
        Call(once, <<"apply", o, xv, yv, zv>>, apply(env, o, xv, yv, zv),
             Raised(arith(o, Lookup(env, yv), Lookup(env, zv))), {})

DomApplyK(once) ==
    \E o \in ArithOps \cup InvalidOps, xv \in Keys, yv \in Keys, k \in Ks :
        Call(once, <<"apply_k", o, xv, yv, k>>, apply_k(env, o, xv, yv, k),
             Raised(arith(o, Lookup(env, yv), INum(k))), {})

DomApplyBitwise(once) ==
    \E o \in BitwiseOps \cup InvalidOps, xv \in Keys, yv \in Keys, zv \in Keys :
        Call(once, <<"apply_bitwise", o, xv, yv, zv>>,
             apply_bitwise(env, o, xv, yv, zv),
             Raised(bitwise(o, Lookup(env, yv), Lookup(env, zv))), {})

DomApplyBitwiseK(once) ==
    \E o \in BitwiseOps \cup InvalidOps, xv \in Keys, yv \in Keys, k \in Ks :
        Call(once, <<"apply_bitwise_k", o, xv, yv, k>>,
             apply_bitwise_k(env, o, xv, yv, k),
             Raised(bitwise(o, Lookup(env, yv), INum(k))), {})

DomApplyDiv(once) ==
    \E o \in DivOps \cup InvalidOps, xv \in Keys, yv \in Keys, zv \in Keys :
        Call(once, <<"apply_div", o, xv, yv, zv>>, apply_div(env, o, xv, yv, zv),
             Raised(division(o, Lookup(env, yv), Lookup(env, zv))), {})

DomApplyDivK(once) ==
    \E o \in DivOps \cup InvalidOps, xv \in Keys, yv \in Keys, k \in Ks :
        Call(once, <<"apply_div_k", o, xv, yv, k>>,
             apply_div_k(env, o, xv, yv, k),
             Raised(division(o, Lookup(env, yv), INum(k))), {})

DomApplyIntConv(once) ==
    \E dst \in Keys, src \in Keys :
        Mutates(once, <<"apply_int_conv", dst, src>>, apply_int_conv(env, dst, src))

DomAdd(once) ==
    \E cs \in ConstraintSystems : Mutates(once, <<"add", cs>>, add(env, cs))

DomLookup(once) ==
    \E k \in Keys : Call(once, <<"lookup", k>>, env, Lookup(env, k), {})

DomEval(once) ==
    \E expr \in Exprs : Call(once, <<"eval", expr>>, env, Eval(env, expr), {})

DomExport(once) ==
    Call(once, <<"export">>, env, IBottom, to_linear_constraint_system(env))

NextDomain ==
    \/ DomSet(FALSE)
    \/ DomForget(FALSE)
    \/ DomJoin(FALSE)
    \/ DomMeet(FALSE)
    \/ DomWiden(FALSE)
    \/ DomNarrow(FALSE)
    \/ DomAssign(FALSE)
    \/ DomApply(FALSE)
    \/ DomApplyK(FALSE)
    \/ DomApplyBitwise(FALSE)
    \/ DomApplyBitwiseK(FALSE)
    \/ DomApplyDiv(FALSE)
    \/ DomApplyDivK(FALSE)
    \/ DomApplyIntConv(FALSE)
    \/ DomAdd(FALSE)
    \/ DomLookup(FALSE)
    \/ DomEval(FALSE)
    \/ DomExport(FALSE)

SpecDomain == InitDomain /\ [][NextDomain]_vars

NextCall ==
    \/ DomSet(TRUE)
    \/ DomForget(TRUE)
    \/ DomJoin(TRUE)
    \/ DomMeet(TRUE)
    \/ DomWiden(TRUE)
    \/ DomNarrow(TRUE)
    \/ DomAssign(TRUE)
    \/ DomApply(TRUE)
    \/ DomApplyK(TRUE)
    \/ DomApplyBitwise(TRUE)
    \/ DomApplyBitwiseK(TRUE)
    \/ DomApplyDiv(TRUE)
    \/ DomApplyDivK(TRUE)
    \/ DomApplyIntConv(TRUE)
    \/ DomAdd(TRUE)
    \/ DomLookup(TRUE)
    \/ DomEval(TRUE)
    \/ DomExport(TRUE)

SpecCall == InitCall /\ [][NextCall]_vars


-----------------------------------------------------------------------------
(* Claims checked under SpecDomain *)

(* C12: in every state reached from top() or bottom() by set, forget,      *)
(* join, meet, widening, narrowing, assign and apply, a map that is not    *)
(* bottom binds no key to the top interval and none to the bottom          *)
(* interval, and a bottom map has an empty tree.                           *)
C12_MapRepresentation ==
    /\ env.is_bottom => env.tree = EmptyTree
    /\ ~env.is_bottom =>
          \A k \in DOMAIN env.tree :
              /\ ~is_top(env.tree[k])
              /\ ~is_bottom(env.tree[k])
              /\ WellFormed(env.tree[k])

(* a division left both keys bound *)
C12_Witness ==
    /\ call = <<"apply_div">>
    /\ ~env.is_bottom
    /\ DOMAIN env.tree = Keys


(* the calls that change the state in place *)
MutatingCalls ==
    {"set", "forget", "assign", "apply", "apply_k", "apply_bitwise",
     "apply_bitwise_k", "apply_div", "apply_div_k", "apply_int_conv", "add"}

BottomStays ==
    env.is_bottom /\ call'[1] \in MutatingCalls =>
        /\ env'.is_bottom
        /\ env' = MBottom
        /\ \A k \in Keys : Lookup(env', k) = IBottom

(* C13: bottom is absorbing under mutation: set with any value, forget,    *)
(* assign, every apply overload and += of constraints leave a bottom state *)
(* bottom, and the lookup of every variable then returns bottom.           *)
C13_BottomAbsorbing == [][BottomStays]_vars

(* a bitwise apply ran and the state is bottom: no bitwise operation gives *)
(* bottom on a state that is not bottom, so it ran on bottom               *)
C13_Witness ==
    /\ call = <<"apply_bitwise_k">>
    /\ env.is_bottom


-----------------------------------------------------------------------------
(* Claims checked under SpecCall *)

(* what set(k, v) must do to a state that is not bottom *)
SetOk(k, v) ==
    /\ is_bottom(v) => env' = MBottom
    /\ ~is_bottom(v) /\ is_top(v) =>
          /\ ~env'.is_bottom
          /\ k \notin DOMAIN env'.tree
    /\ ~is_bottom(v) /\ ~is_top(v) =>
          /\ ~env'.is_bottom
          /\ k \in DOMAIN env'.tree
          /\ env'.tree[k] = v
    /\ ~is_bottom(v) =>
          /\ IEq(Lookup(env', k), v)
          /\ \A j \in Keys \ {k} : Lookup(env', j) = Lookup(env, j)

(* what lookup(k) must return *)
LookupOk(k) ==
    out' = IF env.is_bottom THEN IBottom
           ELSE IF k \in DOMAIN env.tree THEN env.tree[k]
           ELSE ITop

SetLookupOk ==
    /\ call'[1] = "set" /\ ~env.is_bottom => SetOk(call'[2], call'[3])
    /\ call'[1] = "lookup" => LookupOk(call'[2])

(* C14: on a map that is not bottom, set(k, v) with v bottom makes the map *)
(* bottom, with v top removes k, and otherwise binds k to v; afterwards,   *)
(* for v not bottom, lookup(k) = v and the lookup of every other key is    *)
(* unchanged; the lookup of an unbound key is top, on a bottom map bottom. *)
C14_SetLookup == [][SetLookupOk]_vars

(* C14 for the values v that are bottom or contain a number *)
C14_SetLookupWellFormed ==
    [][(call'[1] = "set" /\ ~WellFormed(call'[3])) \/ SetLookupOk]_vars



ForgetOk(k) ==
    IF env.is_bottom THEN env' = env
    ELSE /\ ~env'.is_bottom
         /\ Lookup(env', k) = ITop
         /\ \A j \in Keys \ {k} :
               /\ j \in DOMAIN env'.tree <=> j \in DOMAIN env.tree
               /\ Lookup(env', j) = Lookup(env, j)

(* C15: forget(k) on a state that is not bottom makes lookup(k) top and    *)
(* leaves the binding of every other variable as it was; on a bottom state *)
(* it changes nothing.                                                     *)
C15_Forget == [][call'[1] = "forget" => ForgetOk(call'[2])]_vars

(* x was forgotten and only y -> [MapN, MapN] is left *)
C15_Witness ==
    /\ call = <<"forget", "x">>
    /\ ~env.is_bottom
    /\ DOMAIN env.tree = {"y"}
    /\ env.tree["y"] = INum(MapN)


-----------------------------------------------------------------------------
(* Claims about the lattice operations of maps, checked under Spec *)

(* the interval operation a map operation applies to the values of a key *)
Pointwise(name, i, j) ==
    CASE name = "join"   -> IJoin(i, j)
      [] name = "widen"  -> IWiden(i, j)
      [] name = "meet"   -> IMeet(i, j)
      [] name = "narrow" -> INarrow(i, j)

(* C16: join and widening of maps are pointwise: for maps a, b that are    *)
(* not bottom and every key k, (a op b)[k] = a[k] op b[k] with unbound     *)
(* keys read as top, so that a key bound in one operand only, or whose     *)
(* pointwise result is top, is unbound in the result; if an operand is     *)
(* bottom the result is the other operand.                                 *)
C16_JoinWidenPointwise ==
    mop \in {"join", "widen"} =>
        IF ma.is_bottom THEN mr = mb
        ELSE IF mb.is_bottom THEN mr = ma
        ELSE /\ ~mr.is_bottom
             /\ \A k \in Keys :
                   /\ Lookup(mr, k) = Pointwise(mop, Lookup(ma, k), Lookup(mb, k))
                   /\ \/ k \notin DOMAIN ma.tree \cap DOMAIN mb.tree
                      \/ is_top(Pointwise(mop, Lookup(ma, k), Lookup(mb, k)))
                      => k \notin DOMAIN mr.tree

(* {x -> [0, 0]} widened with {x -> [0, MapN]} is {x -> [0, +oo]} *)
C16_Witness ==
    /\ mop = "widen"
    /\ ma = MTree([k \in {"x"} |-> INum(0)])
    /\ mb = MTree([k \in {"x"} |-> Interval(Fin(0), Fin(MapN))])
    /\ mr = MTree([k \in {"x"} |-> Interval(Fin(0), plus_infinity)])

-----------------------------------------------------------------------------
(* Claims about assignment and export, checked under SpecCall *)

(* the sum over the variables in todo of interval(c) * lookup(v) *)
RECURSIVE SumOfTerms(_, _, _)
SumOfTerms(e, terms, todo) ==
    IF todo = {} THEN INum(0)
    ELSE LET v == CHOOSE w \in todo : TRUE
         IN  IAdd(IMul(INum(terms[v]), Lookup(e, v)),
                  SumOfTerms(e, terms, todo \ {v}))

(* interval(constant of e) + the sum of interval(c) * lookup(v) *)
ExprValue(e, expr) ==
    IAdd(INum(expr.constant), SumOfTerms(e, expr.terms, DOMAIN expr.terms))

AssignOk(xv, expr) ==
    /\ ~env'.is_bottom
    /\ Lookup(env', xv) = ExprValue(env, expr)
    /\ \A j \in Keys \ {xv} :
          /\ j \in DOMAIN env'.tree <=> j \in DOMAIN env.tree
          /\ Lookup(env', j) = Lookup(env, j)

AssignEvalOk ==
    /\ call'[1] = "assign" /\ ~env.is_bottom => AssignOk(call'[2], call'[3])
    /\ call'[1] = "eval" /\ ~env.is_bottom => out' = ExprValue(env, call'[2])

(* C19: on a state that is not bottom, assign(x, e) binds x to             *)
(* interval(constant of e) + the sum over the (c, v) pairs of e of         *)
(* interval(c) * lookup(v), evaluated in the state before the assignment   *)
(* with unbound variables read as top, and leaves every other variable     *)
(* unchanged; operator[](e) returns that same interval.                    *)
C19_AssignLinear == [][AssignEvalOk]_vars

(* y := x + y ran with x = [0, MapN] and left y = [0, MapN]: y was [0, 0] *)
C19_Witness ==
    /\ call = <<"assign", "y", linear_expression(0, [k \in Keys |-> 1])>>
    /\ ~env.is_bottom
    /\ DOMAIN env.tree = Keys
    /\ env.tree["x"] = Interval(Fin(0), Fin(MapN))
    /\ env.tree["y"] = Interval(Fin(0), Fin(MapN))


(* the constraints the export of a state that is not bottom must hold *)
ExpectedConstraints(e) ==
    {linear_constraint(v, ">=", e.tree[v].lb.n, FALSE) :
        v \in {w \in DOMAIN e.tree : ~e.tree[w].lb.inf}}
    \cup
    {linear_constraint(v, "<=", e.tree[v].ub.n, FALSE) :
        v \in {w \in DOMAIN e.tree : ~e.tree[w].ub.inf}}

ExportOk ==
    /\ csts' # IterationError
    /\ env.is_bottom => csts' = {get_false}
    /\ ~env.is_bottom => csts' = ExpectedConstraints(env)
    /\ env = MTop => csts' = {}

(* C20: to_linear_constraint_system on a bottom state returns exactly      *)
(* {false}; on a state that is not bottom exactly v >= l for every bound   *)
(* variable with a finite lower bound l and v <= u for every bound         *)
(* variable with a finite upper bound u (nothing for top); it never runs   *)
(* into the error of iterating a bottom map.                               *)
C20_Export == [][call'[1] = "export" => ExportOk]_vars

(* the export of {x -> [0, +oo], y -> [0, MapN]} *)
C20_Witness ==
    /\ call = <<"export">>
    /\ env = MTree([k \in Keys |-> IF k = "x" THEN Interval(Fin(0), plus_infinity)
                                   ELSE Interval(Fin(0), Fin(MapN))])
    /\ csts = {linear_constraint("x", ">=", 0, FALSE),
               linear_constraint("y", ">=", 0, FALSE),
               linear_constraint("y", "<=", MapN, FALSE)}


-----------------------------------------------------------------------------
(* SpecThresholds: two intervals are built, a threshold set is given, and   *)
(* a.widening_thresholds(b, ts) is called.                                  *)

(* Thresholds::get_prev(b): the greatest threshold <= b, or -oo *)
get_prev(t, bd) ==
    LET below == {n \in t : BLe(Fin(n), bd)}
    IN  IF below = {} THEN minus_infinity
        ELSE Fin(CHOOSE n \in below : \A m \in below : m <= n)

(* Thresholds::get_next(b): the least threshold >= b, or +oo *)
get_next(t, bd) ==
    LET above == {n \in t : BLe(bd, Fin(n))}
    IN  IF above = {} THEN plus_infinity
        ELSE Fin(CHOOSE n \in above : \A m \in above : n <= m)

(* Faulty widening_thresholds: the growing bound jumps to infinity. *)
widening_thresholds_unbounded(i, j, t) ==
    IF is_bottom(i) THEN j
    ELSE IF is_bottom(j) THEN i
    ELSE Interval(IF BLt(j.lb, i.lb) THEN minus_infinity ELSE i.lb,
                  IF BLt(i.ub, j.ub) THEN plus_infinity ELSE i.ub)

(* interval::widening_thresholds(x, ts) *)
widening_thresholds(i, j, t) ==
    IF is_bottom(i) THEN j
    ELSE IF is_bottom(j) THEN i
    ELSE Interval(IF BLt(j.lb, i.lb) THEN get_prev(t, j.lb) ELSE i.lb,
                  IF BLt(i.ub, j.ub) THEN get_next(t, j.ub) ELSE i.ub)

(* the threshold sets: the subsets of three numbers, one below, one inside  *)
(* and one above the range of the finite bounds                             *)
ThresholdSets == SUBSET {-(MaxN + 1), 0, MaxN + 1}

InitThresholds ==
    /\ args \in Bounds \X Bounds \X Bounds \X Bounds
    /\ a = Interval(args[1], args[2])
    /\ b = Interval(args[3], args[4])
    /\ ts \in ThresholdSets
    /\ op = "init"
    /\ r = IBottom
    /\ MapVarsIdle
    /\ ChainVarsIdle
    /\ DomainVarsIdle
    /\ BoundVarsIdle

DoWideningThresholds ==
    Returns("widening_thresholds", widening_thresholds(a, b, ts))

SpecThresholds == InitThresholds /\ [][DoWideningThresholds]_vars

(* C18: for intervals a, b that are not bottom and a threshold set ts,     *)
(* a.widening_thresholds(b, ts) has the lower bound ts.get_prev(b.lb) (the *)
(* greatest threshold <= b.lb, else -oo) if b.lb < a.lb and a.lb           *)
(* otherwise, and the upper bound ts.get_next(b.ub) (the least threshold   *)
(* >= b.ub, else +oo) if a.ub < b.ub and a.ub otherwise; bottom is the     *)
(* identity on either side.                                                *)
C18_WideningThresholds ==
    op = "widening_thresholds" =>
        IF is_bottom(a) THEN r = b
        ELSE IF is_bottom(b) THEN r = a
        ELSE /\ IF BLt(b.lb, a.lb)
                THEN /\ BLe(r.lb, b.lb)
                     /\ r.lb = minus_infinity \/ (is_finite(r.lb) /\ r.lb.n \in ts)
                     /\ \A n \in ts : BLe(Fin(n), b.lb) => BLe(Fin(n), r.lb)
                ELSE r.lb = a.lb
             /\ IF BLt(a.ub, b.ub)
                THEN /\ BLe(b.ub, r.ub)
                     /\ r.ub = plus_infinity \/ (is_finite(r.ub) /\ r.ub.n \in ts)
                     /\ \A n \in ts : BLe(b.ub, Fin(n)) => BLe(r.ub, Fin(n))
                ELSE r.ub = a.ub

(* [0, MaxN - 1] widened with [0, MaxN] and the thresholds {MaxN + 1} is   *)
(* [0, MaxN + 1]                                                           *)
C18_Witness ==
    /\ op = "widening_thresholds"
    /\ a = Interval(Fin(0), Fin(MaxN - 1))
    /\ b = Interval(Fin(0), Fin(MaxN))
    /\ ts = {MaxN + 1}
    /\ r = Interval(Fin(0), Fin(MaxN + 1))


-----------------------------------------------------------------------------
(* Claims about the export and about failing calls *)

(* C21: export round trip: for every state s, adding the constraints of    *)
(* to_linear_constraint_system(s) to a top state with += gives a state     *)
(* that is <= s.                                                           *)
C21_ExportRoundTrip ==
    call[1] = "export" => MLeq(add(MTop, csts), env)

(* the exported state binds one key with a finite and one with an infinite *)
(* bound, and the round trip gives the same state back                     *)
C21_Witness ==
    /\ call[1] = "export"
    /\ ~env.is_bottom
    /\ DOMAIN env.tree = Keys
    /\ \E k \in Keys : is_finite(env.tree[k].lb) /\ ~is_finite(env.tree[k].ub)
    /\ add(MTop, csts) = env


-----------------------------------------------------------------------------
(* SpecBound: two bounds are given and one bound operation is applied.      *)

(* bound::operator== *)
BEq(u, v) == u.inf = v.inf /\ u.n = v.n

(* bound::abs *)
BAbs(u) == IF BGe(u, Fin(0)) THEN u ELSE BNeg(u)

InitBound ==
    /\ args \in Bounds \X Bounds
    /\ op = "init"
    /\ bres = Fin(0)
    /\ a = IBottom /\ b = IBottom /\ r = IBottom
    /\ MapVarsIdle
    /\ ChainVarsIdle
    /\ DomainVarsIdle
    /\ ThresholdVarsIdle

(* bres = BErr afterwards: the operation raised CRAB_ERROR and returned no value. *)
BoundReturns(name, v) ==
    /\ op = "init"
    /\ op' = name
    /\ bres' = v
    /\ UNCHANGED <<args, a, b, r, ma, mb, mop, mr, x, y, changes,
                 env, call, out, csts, ts>>

DoBoundAdd == BoundReturns("+", BAdd(args[1], args[2]))

DoBoundSub == BoundReturns("-", BSub(args[1], args[2]))

DoBoundMul == BoundReturns("*", BMul(args[1], args[2]))

DoBoundDiv == BoundReturns("/", BDiv(args[1], args[2]))

DoBoundNeg == BoundReturns("neg", BNeg(args[1]))

DoBoundAbs == BoundReturns("abs", BAbs(args[1]))

DoBoundMin == BoundReturns("min", BMin(args[1], args[2]))

DoBoundMax == BoundReturns("max", BMax(args[1], args[2]))

DoBoundLe == BoundReturns("<=", BLe(args[1], args[2]))

DoBoundGe == BoundReturns(">=", BGe(args[1], args[2]))

DoBoundLt == BoundReturns("<", BLt(args[1], args[2]))

DoBoundGt == BoundReturns(">", BGt(args[1], args[2]))

DoBoundEq == BoundReturns("==", BEq(args[1], args[2]))

NextBound ==
    \/ DoBoundAdd
    \/ DoBoundSub
    \/ DoBoundMul
    \/ DoBoundDiv
    \/ DoBoundNeg
    \/ DoBoundAbs
    \/ DoBoundMin
    \/ DoBoundMax
    \/ DoBoundLe
    \/ DoBoundGe
    \/ DoBoundLt
    \/ DoBoundGt
    \/ DoBoundEq

SpecBound == InitBound /\ [][NextBound]_vars

(* a value of type bound: finite, +oo or -oo *)
IsBound(u) == u \in [inf : {FALSE}, n : Int] \/ u = plus_infinity \/ u = minus_infinity

(* the order of the extended integers *)
ExtLe(u, v) ==
    \/ u = minus_infinity
    \/ v = plus_infinity
    \/ is_finite(u) /\ is_finite(v) /\ u.n <= v.n

(* C22: bound +, -, *, /, negation and the comparisons return a value for  *)
(* every pair of bounds, except that adding infinities of opposite sign    *)
(* (a - b with a and b the same infinity included) and dividing by the     *)
(* finite bound 0 raise the fatal error and return no value.               *)
C22_BoundTotal ==
    LET u == args[1]
        v == args[2]
    IN  /\ op = "+" =>
              IF u.inf /\ v.inf /\ u # v THEN bres = BErr ELSE IsBound(bres)
        /\ op = "-" =>
              IF u.inf /\ v.inf /\ u = v THEN bres = BErr ELSE IsBound(bres)
        /\ op = "/" =>
              IF v = Fin(0) THEN bres = BErr ELSE IsBound(bres)
        /\ op \in {"*", "neg"} => IsBound(bres)
        /\ op = "<=" => bres = ExtLe(u, v)
        /\ op = ">=" => bres = ExtLe(v, u)
        /\ op = "<" => bres = (ExtLe(u, v) /\ u # v)
        /\ op = ">" => bres = (ExtLe(v, u) /\ u # v)
        /\ op = "==" => bres = (u = v)

(* +oo - +oo raised the error *)
C22_Witness ==
    /\ op = "-"
    /\ args = <<plus_infinity, plus_infinity>>
    /\ bres = BErr


ApplyCalls ==
    {"apply", "apply_k", "apply_bitwise", "apply_bitwise_k", "apply_div",
     "apply_div_k"}

(* the call raised the fatal error and left the state as it was *)
FailStop == out' = IErr /\ env' = env

(* C23: every interval_domain::apply overload (arithmetic, bitwise and     *)
(* division operators; variable and constant right operand) called with an *)
(* operator value outside the cases it enumerates stops with a fatal error *)
(* and leaves the abstract state unmodified, rather than assigning a value *)
(* to x.                                                                   *)
C23_UnreachableOperator ==
    [][call'[1] \in ApplyCalls /\ call'[2] \in InvalidOps => FailStop]_vars

(* The same, for the bitwise and the division overloads only. *)
C23_UnreachableBitwiseDiv ==
    [][/\ call'[1] \in ApplyCalls \ {"apply", "apply_k"}
       /\ call'[2] \in InvalidOps
       => FailStop]_vars


-----------------------------------------------------------------------------
(* Claims about integer division *)

(* the quotient of m by c # 0 rounded toward zero: the remainder is smaller *)
(* than c in absolute value and is 0 or has the sign of m                   *)
TruncQuot(m, c) ==
    CHOOSE q \in -Abs(m) .. Abs(m) :
        /\ Abs(m - q * c) < Abs(c)
        /\ m - q * c = 0 \/ (m - q * c > 0) = (m > 0)

(* the bound u divided by the number c # 0: an infinite bound keeps its    *)
(* sign for c > 0 and flips it for c < 0                                   *)
QuotBound(u, c) ==
    IF is_finite(u) THEN Fin(TruncQuot(u.n, c))
    ELSE IF (c > 0) = (u = plus_infinity) THEN plus_infinity
    ELSE minus_infinity

(* C24: integer division of a non-bottom interval [lb, ub] by a singleton  *)
(* divisor {c}: c = 1 returns the dividend unchanged, c > 0 returns        *)
(* [lb/c, ub/c], c < 0 returns [ub/c, lb/c] and c = 0 returns bottom, the  *)
(* bound division truncating toward zero and an infinite bound keeping or  *)
(* flipping its sign.                                                      *)
C24_SingletonDivisor ==
    op = "div" /\ ~is_bottom(a) /\ is_singleton(b) =>
        LET c == b.lb.n
        IN  IF c = 1 THEN r = a
            ELSE IF c > 0
                 THEN r = [lb |-> QuotBound(a.lb, c), ub |-> QuotBound(a.ub, c)]
            ELSE IF c < 0
                 THEN r = [lb |-> QuotBound(a.ub, c), ub |-> QuotBound(a.lb, c)]
            ELSE r = IBottom

(* [-MaxN, +oo] / {-MaxN} = [-oo, 1] *)
C24_Witness ==
    /\ op = "div"
    /\ a = Interval(Fin(-MaxN), plus_infinity)
    /\ b = INum(-MaxN)
    /\ r = Interval(minus_infinity, Fin(1))

(* C24, second part: apply of a division of y by the constant 0 on a state *)
(* that is not bottom turns the whole state into bottom.                   *)
C24_ApplyDivisionByZero ==
    [][/\ call'[1] \in {"apply_k", "apply_div_k"}
       /\ call'[2] \in {"OP_DIVISION", "OP_SDIV"}
       /\ call'[5] = 0
       /\ ~env.is_bottom
       => env' = MBottom /\ out' # IErr]_vars


(* C25: integer division by a divisor x that is not a singleton and        *)
(* contains 0: for every non-bottom dividend a, a / x is the join of       *)
(* a / [x.lb, -1] and a / [1, x.ub], an empty half contributing bottom;    *)
(* neither half contains 0.                                                *)
C25_DivisorSplit ==
    op = "div" /\ ~is_bottom(a) /\ ~is_bottom(b) /\ ~is_singleton(b)
               /\ Contains(b, 0) =>
        LET l == Interval(b.lb, Fin(-1))
            u == Interval(Fin(1), b.ub)
            ql == IDiv(a, l)
            qu == IDiv(a, u)
        IN  /\ ~Contains(l, 0) /\ ~Contains(u, 0)
            /\ is_bottom(l) => is_bottom(ql) /\ r = qu
            /\ is_bottom(u) => is_bottom(qu) /\ r = ql
            /\ ~is_bottom(ql) /\ ~is_bottom(qu) =>
                  /\ r.lb = (IF ExtLe(ql.lb, qu.lb) THEN ql.lb ELSE qu.lb)
                  /\ r.ub = (IF ExtLe(ql.ub, qu.ub) THEN qu.ub ELSE ql.ub)

(* [1, MaxN] / [-MaxN, MaxN - 1] = [-MaxN, MaxN] *)
C25_Witness ==
    /\ op = "div"
    /\ a = Interval(Fin(1), Fin(MaxN))
    /\ b = Interval(Fin(-MaxN), Fin(MaxN - 1))
    /\ r = Interval(Fin(-MaxN), Fin(MaxN))


-----------------------------------------------------------------------------
(* SpecInteger: two intervals of integers are built by interval(lb, ub) and *)
(* one operation of interval<z_number> is applied to the pair.  The right   *)
(* operand is also the singleton of a shift beyond the largest one.         *)

LargeShifts == {Fin(MaxShift + 1)}

InitInteger ==
    /\ args \in (Bounds \X Bounds \X Bounds \X Bounds)
                 \cup (Bounds \X Bounds \X LargeShifts \X LargeShifts)
    /\ a = Interval(args[1], args[2])
    /\ b = Interval(args[3], args[4])
    /\ op = "init"
    /\ r = IBottom
    /\ MapVarsIdle
    /\ ChainVarsIdle
    /\ DomainVarsIdle
    /\ ThresholdVarsIdle
    /\ BoundVarsIdle

DoUDiv == Returns("UDiv", UDiv(a, b))

DoSRem == Returns("SRem", SRem(a, b))

DoURem == Returns("URem", URem(a, b))

DoAnd == Returns("And", And(a, b))

DoOr == Returns("Or", Or(a, b))

DoXor == Returns("Xor", Xor(a, b))

DoShl == Returns("Shl", Shl(a, b))

DoAShr == Returns("AShr", AShr(a, b))

DoLShr == Returns("LShr", LShr(a, b))

NextInteger ==
    \/ DoJoin
    \/ DoMeet
    \/ DoWiden
    \/ DoNarrow
    \/ DoAdd
    \/ DoSub
    \/ DoNeg
    \/ DoMul
    \/ DoDiv
    \/ DoUDiv
    \/ DoSRem
    \/ DoURem
    \/ DoAnd
    \/ DoOr
    \/ DoXor
    \/ DoShl
    \/ DoAShr
    \/ DoLShr

SpecInteger == InitInteger /\ [][NextInteger]_vars


-----------------------------------------------------------------------------
(* Claims checked under SpecInteger *)

(* the bound u multiplied by the number f > 0 *)
ScaleBound(u, f) == IF is_finite(u) THEN Fin(u.n * f) ELSE u

(* C26: Shl on integer intervals: if the shift operand is a singleton k    *)
(* with 0 <= k <= 128 the result is the left operand multiplied by 2^k; if *)
(* the shift is a negative singleton, a singleton above 128 or not a       *)
(* singleton the result is top; if either operand is bottom the result is  *)
(* bottom.                                                                 *)
C26_Shl ==
    op = "Shl" =>
        IF is_bottom(a) \/ is_bottom(b) THEN r = IBottom
        ELSE IF is_singleton(b) /\ 0 <= b.lb.n /\ b.lb.n <= 128
             THEN r = [lb |-> ScaleBound(a.lb, 2 ^ b.lb.n),
                       ub |-> ScaleBound(a.ub, 2 ^ b.lb.n)]
        ELSE r = ITop

(* [MaxN, MaxN] << [MaxN, MaxN] is the singleton MaxN * 2^MaxN *)
C26_Witness ==
    /\ op = "Shl"
    /\ a = INum(MaxN)
    /\ b = INum(MaxN)
    /\ r = INum(MaxN * 2 ^ MaxN)

(* a singleton shifted by -1 and by a shift above the largest one is top *)
C26_WitnessTop ==
    /\ op = "Shl"
    /\ is_singleton(a)
    /\ b = INum(-1) \/ b = INum(MaxShift + 1)
    /\ r = ITop


(* C27: AShr is a sound abstraction of the arithmetic right shift: for     *)
(* every non-bottom interval A, every integer m in A (negative ones        *)
(* included) and every singleton shift k with 0 <= k <= 128, the concrete  *)
(* result, the quotient of m by 2^k rounded down, is in A.AShr({k}).       *)
C27_AShrSound ==
    Applied("AShr") /\ ~is_bottom(a) /\ is_singleton(b)
                    /\ 0 <= b.lb.n /\ b.lb.n <= 128 =>
        \A m \in Numbers : InGamma(m, a) => InGamma(m \div (2 ^ b.lb.n), r)


(* The same for intervals without negative values, where rounding down and *)
(* rounding toward zero agree.                                             *)
C27_AShrSoundNonNegative ==
    Applied("AShr") /\ ~is_bottom(a) /\ BGe(a.lb, Fin(0)) /\ is_singleton(b)
                    /\ 0 <= b.lb.n /\ b.lb.n <= 128 =>
        \A m \in Numbers : InGamma(m, a) => InGamma(m \div (2 ^ b.lb.n), r)

(* v is the smallest 2^k - 1 that is >= n *)
IsFillOnes(v, n) ==
    \E k \in 0 .. 10 :
        /\ v = 2 ^ k - 1
        /\ v >= n
        /\ k = 0 \/ 2 ^ (k - 1) - 1 < n

(* the shape of the result of Or and Xor when not both operands are        *)
(* singletons                                                              *)
OrShape ==
    IF BGe(a.lb, Fin(0)) /\ BGe(b.lb, Fin(0))
    THEN (IF is_finite(a.ub) /\ is_finite(b.ub)
          THEN /\ r.lb = Fin(0)
               /\ is_finite(r.ub)
               /\ IsFillOnes(r.ub.n, IF a.ub.n > b.ub.n THEN a.ub.n ELSE b.ub.n)
          ELSE r = Interval(Fin(0), plus_infinity))
    ELSE r = ITop

(* C28: And, Or and Xor on integer intervals are sound: for all non-bottom *)
(* A, B and all integers m in A, n in B (two's complement of unbounded     *)
(* width), m AND n is in A.And(B), m OR n is in A.Or(B) and m XOR n is in   *)
(* A.Xor(B); the results are exact for two singletons, [0, min(ub1, ub2)]  *)
(* for And of two non-negative intervals, [0, fill_ones(max(ub1, ub2))]    *)
(* for Or and Xor of two non-negative intervals with finite upper bounds,  *)
(* and top when an operand may be negative.                                *)
C28_BitwiseSound ==
    ~is_bottom(a) /\ ~is_bottom(b) =>
        /\ Applied("And") =>
              /\ \A m \in Numbers, n \in Numbers :
                    InGamma(m, a) /\ InGamma(n, b) => InGamma(BitAnd(m, n), r)
              /\ IF is_singleton(a) /\ is_singleton(b)
                 THEN r = INum(BitAnd(a.lb.n, b.lb.n))
                 ELSE IF BGe(a.lb, Fin(0)) /\ BGe(b.lb, Fin(0))
                      THEN r = [lb |-> Fin(0),
                                ub |-> IF ExtLe(a.ub, b.ub) THEN a.ub ELSE b.ub]
                 ELSE r = ITop
        /\ Applied("Or") =>
              /\ \A m \in Numbers, n \in Numbers :
                    InGamma(m, a) /\ InGamma(n, b) => InGamma(BitOr(m, n), r)
              /\ IF is_singleton(a) /\ is_singleton(b)
                 THEN r = INum(BitOr(a.lb.n, b.lb.n))
                 ELSE OrShape
        /\ Applied("Xor") =>
              /\ \A m \in Numbers, n \in Numbers :
                    InGamma(m, a) /\ InGamma(n, b) => InGamma(BitXor(m, n), r)
              /\ IF is_singleton(a) /\ is_singleton(b)
                 THEN r = INum(BitXor(a.lb.n, b.lb.n))
                 ELSE OrShape

(* [0, MaxN] Or [1, MaxN]: 1 OR MaxN may exceed MaxN and is in the result *)
C28_Witness ==
    /\ op = "Or"
    /\ a = Interval(Fin(0), Fin(MaxN))
    /\ b = Interval(Fin(1), Fin(MaxN))
    /\ r.lb = Fin(0)
    /\ InGamma(BitOr(1, MaxN), r)


(* C29: SRem on integer intervals: for all non-bottom A, B and integers m  *)
(* in A, n # 0 in B, the remainder of the division of m by n rounded       *)
(* toward zero is in A.SRem(B); two singletons give the exact remainder    *)
(* (bottom for the divisor 0); otherwise, with finite divisor bounds and   *)
(* d = max(|B.lb|, |B.ub|), the result is [0, d-1] when A.lb >= 0,         *)
(* [-(d-1), 0] when A.lb < 0 and A.ub <= 0, [-(d-1), d-1] when A straddles *)
(* 0, and bottom when d = 0; with an infinite divisor bound it is top.     *)
C29_SRem ==
    Applied("SRem") /\ ~is_bottom(a) /\ ~is_bottom(b) =>
        /\ \A m \in Numbers, n \in Numbers \ {0} :
              InGamma(m, a) /\ InGamma(n, b) =>
                  InGamma(m - n * TruncQuot(m, n), r)
        /\ IF is_singleton(a) /\ is_singleton(b)
           THEN IF b.lb.n = 0 THEN r = IBottom
                ELSE r = INum(a.lb.n - b.lb.n * TruncQuot(a.lb.n, b.lb.n))
           ELSE IF is_finite(b.lb) /\ is_finite(b.ub)
                THEN LET d == IF Abs(b.lb.n) >= Abs(b.ub.n)
                              THEN Abs(b.lb.n) ELSE Abs(b.ub.n)
                     IN  IF d = 0 THEN r = IBottom
                         ELSE IF ExtLe(Fin(0), a.lb)
                              THEN r = [lb |-> Fin(0), ub |-> Fin(d - 1)]
                         ELSE IF ExtLe(a.ub, Fin(0))
                              THEN r = [lb |-> Fin(-(d - 1)), ub |-> Fin(0)]
                         ELSE r = [lb |-> Fin(-(d - 1)), ub |-> Fin(d - 1)]
           ELSE r = ITop

(* [-1, MaxN] SRem [1, MaxN] = [-(MaxN - 1), MaxN - 1] *)
C29_Witness ==
    /\ op = "SRem"
    /\ a = Interval(Fin(-1), Fin(MaxN))
    /\ b = Interval(Fin(1), Fin(MaxN))
    /\ r = Interval(Fin(-(MaxN - 1)), Fin(MaxN - 1))


(* C30: no interval operation reaches undefined bound arithmetic: for all  *)
(* well-formed intervals (bottom, or lb <= ub with lb # +oo and ub # -oo), *)
(* the operators +, -, unary -, *, integer /, SRem, URem, And, Or, Xor,    *)
(* Shl, AShr, LShr, join, meet, widening and narrowing never execute a     *)
(* bound addition of opposite infinities nor a bound division by zero, and *)
(* their results that are not bottom are well-formed again.                *)
C30_NoUndefinedArithmetic ==
    op \notin {"init", "idle"} /\ WellFormed(a) /\ WellFormed(b) =>
        /\ r # IErr
        /\ r.lb # BErr /\ r.ub # BErr
        /\ ~is_bottom(r) =>
              BLe(r.lb, r.ub) /\ r.lb # plus_infinity /\ r.ub # minus_infinity

(* a quotient of two intervals with an infinite bound each, where the      *)
(* dividend is shifted by a sum of intervals before the bounds are divided *)
C30_Witness ==
    /\ op = "div"
    /\ a = Interval(minus_infinity, Fin(-1))
    /\ b = Interval(Fin(1), plus_infinity)
    /\ r # IErr
    /\ ~is_bottom(r)
    /\ r.lb = minus_infinity

====
